---------------------------- MODULE Spec2Model ----------------------------
(***************************************************************************)
(* A model of the request pipeline of pointshub_api:                      *)
(*   PointsHubClient (client.py): session lifecycle (_ensure_session,      *)
(*   close), the retry loop of _make_request, set_api_key;                 *)
(*   SteamMethods (methods/steam.py): get_price, buy, get_balance;         *)
(*   BuyOrder (models/steam.py): the payload validators.                   *)
(*                                                                         *)
(* The callers are coroutines of one event loop sharing one client.  A     *)
(* coroutine runs until it awaits; the actions below are the segments      *)
(* between awaits.                                                         *)
(***************************************************************************)
EXTENDS Integers, Sequences, FiniteSets, TLC

(* ------------------------------ bounds -------------------------------- *)

\* number of coroutines sharing the client
NumCallers == 2
\* largest max_retries a client is constructed with
MaxRetries == 3
\* number of operations started on the client in one behaviour
MaxCalls == 3

\* largest |puan| a BuyOrder is constructed with
MaxPuan == 2000

Callers == 1..NumCallers
SessionIds == 1..MaxCalls

(* --------------------------- program constants ------------------------ *)

MIN_POINTS == 100
POINT_MULTIPLE == 100

\* `None`, for api_key and for session
NoKey == "<None>"
NoSession == 0

\* api_key values a caller may construct the client with or set later
KeyValues == {NoKey, "", "key-A"}

\* max_retries values the constructor is given; it stores them unchecked
RetryValues == 0..MaxRetries

\* HTTP statuses the vendor may answer with
Statuses == {399, 400, 499, 500}

\* JSON bodies: a mapping that may or may not carry an `error` field
Bodies == { [hasError |-> FALSE, error |-> ""],
            [hasError |-> TRUE, error |-> "insufficient balance"] }

\* what the transport does with one attempt
TransportFaults == {"ClientConnectionError", "TimeoutError"}
Outcomes == [kind : TransportFaults, status : {0}, body : {[hasError |-> FALSE, error |-> ""]}]
            \cup [kind : {"response"}, status : Statuses, body : Bodies]

\* inputs of buy()
PuanValues == {100, 150}
SteamLinks == { [https |-> TRUE,  p7656 |-> FALSE, len |-> 30, digits |-> FALSE],
                [https |-> FALSE, p7656 |-> TRUE,  len |-> 17, digits |-> TRUE],
                [https |-> FALSE, p7656 |-> TRUE,  len |-> 16, digits |-> TRUE] }

NoBody == [hasError |-> FALSE, error |-> ""]
NoMsg == [text |-> "", n |-> 0, error |-> ""]
NoPayload == [api_key |-> NoKey, puan |-> 0]

\* puan values BuyOrder is constructed with on its own
PuanRange == (0 - MaxPuan)..MaxPuan

\* the coroutine that holds the client in `async with`
ScopeOwner == 1

(* ------------------------------- state -------------------------------- *)

VARIABLES
    base_url,      \* PointsHubClient.base_url
    request_timeout, \* PointsHubClient._request_timeout
    max_retries,   \* PointsHubClient._max_retries
    api_key,       \* PointsHubClient.api_key
    session,       \* PointsHubClient.session: NoSession or a session id
    sess,          \* every session ever created: "absent", "open", "closed"
    released,      \* per session: how often close() called session.close()
    lock,          \* PointsHubClient._session_lock: 0 or the holder
    calls,         \* operations started so far
    pc,            \* per caller: where its coroutine is suspended
    call,          \* per caller: the locals of the call it is in
    done,          \* the call that ended in the last step, if one did: its
                   \* locals and its outcome
    scope          \* `async with client`: "none", "entered", "exited"

vars == <<base_url, request_timeout, max_retries, api_key, session, sess, released, lock, calls, pc, call, done, scope>>

NewCall(o) ==
    [ op       |-> o,        \* the operation called
      attempt  |-> 0,        \* the loop variable `attempt`
      attempts |-> 0,        \* HTTP attempts issued (session.request calls)
      sleeps   |-> <<>>,     \* the asyncio.sleep() durations, in order
      outcomes |-> <<>>,     \* what the transport did with each attempt
      raised   |-> "none",   \* the exception the caller receives
      msg      |-> NoMsg,    \* its message
      context  |-> "none",   \* the exception being handled when it was raised
      ret      |-> "none",   \* "json", "ensured", "released", "noop", "set"
      body     |-> NoBody,   \* the JSON returned
      key      |-> NoKey,    \* api_key as read at the call
      payload  |-> NoPayload,\* the JSON sent
      puan     |-> 0,        \* the puan given to BuyOrder
      invalid  |-> {},       \* the BuyOrder fields whose validator raised
      raced    |-> FALSE,    \* _ensure_session found no usable session at 117
      created  |-> 0         \* sessions this call created
    ]

Init ==
    /\ base_url = "https://api.buysteampoints.com"
    /\ request_timeout = 1800
    /\ max_retries \in RetryValues
    /\ api_key \in KeyValues
    /\ session = NoSession
    /\ sess = [s \in SessionIds |-> "absent"]
    /\ released = [s \in SessionIds |-> 0]
    /\ lock = 0
    /\ calls = 0
    /\ pc = [p \in Callers |-> "idle"]
    /\ call = [p \in Callers |-> NewCall("none")]
    /\ done = NewCall("none")
    /\ scope = "none"


(* --------------------------- pure functions --------------------------- *)

\* a test of api_key against None alone (`api_key is None`)
KeyUnsetOrNone(k) == k = NoKey

\* `not self._client.api_key`: Python's truthiness, false for None and ""
KeyMissing(k) == k = NoKey \/ k = ""

\* validate_puan_multiple without its test of the multiple
validate_puan_minimum(v) ==
    IF v < MIN_POINTS THEN FALSE
    ELSE TRUE

\* BuyOrder.validate_puan_multiple: TRUE when the validator returns v
validate_puan_multiple(v) ==
    IF v < MIN_POINTS THEN FALSE
    ELSE IF v % POINT_MULTIPLE # 0 THEN FALSE
    ELSE TRUE

\* BuyOrder.validate_steam_link: TRUE when the validator returns v
validate_steam_link(v) ==
    IF v.https THEN TRUE
    ELSE IF v.p7656 /\ v.len = 17 /\ v.digits THEN TRUE
    ELSE FALSE

\* BuyOrder(api_key=k, puan=puan, steam_link=steam_link) and its .dict():
\* the fields whose validator raised, and the data of the order, in which a
\* validator that passes leaves the value as given (`return v`)
BuyOrder(k, puan, steam_link) ==
    [ invalid |-> {f \in {"puan"} : ~validate_puan_multiple(puan)}
                  \cup {f \in {"steam_link"} : ~validate_steam_link(steam_link)},
      data    |-> [api_key |-> k, puan |-> puan] ]

\* the guard of close() without its test of session.closed
CloseGuardNoClosedTest == session # NoSession

\* `self.session and not self.session.closed` (close, line 98)
CloseGuard == session # NoSession /\ sess[session] = "open"

\* `not self.session or self.session.closed` (_ensure_session, line 117)
SessionMissing == session = NoSession \/ sess[session] # "open"

\* _ensure_session without the second test: whoever gets the lock creates
SessionMissingAlways == TRUE

\* the same test made again under the lock (line 119)
SessionMissingUnderLock == session = NoSession \/ sess[session] # "open"

\* the id of the session the next ClientSession(...) call creates
NextSession == CHOOSE s \in SessionIds :
                   sess[s] = "absent" /\ \A t \in SessionIds : t < s => sess[t] # "absent"

\* a loop of max_retries retries after the first attempt: range(n + 1)
RangeLenInclusive(n) == n + 1

\* len(range(n)): the number of iterations of `for attempt in range(n)`
RangeLen(n) == IF n > 0 THEN n ELSE 0

\* The classes named by `except (ClientConnectionError, ClientTimeout)`.
\* ClientTimeout is aiohttp's timeout configuration class (the one line 120
\* constructs with total=...); it does not inherit from BaseException.
ExceptTuple == <<"ClientConnectionError", "ClientTimeout">>

IsExceptionClass(c) == c # "ClientTimeout"

\* isinstance(exc, cls) for the exception classes that occur
IsInstance(exc, cls) ==
    \/ exc = cls
    \/ cls = "Exception"
    \/ cls = "APIError" /\ exc \in {"APIClientError", "APIServerError",
                                    "APIConnectionError", "APITimeoutError",
                                    "APIAuthenticationError"}

\* an except clause that catches whatever is raised (`except Exception`)
ExceptClauseCatchAll(exc) == "caught"

\* How Python matches a raised exception against the except clause of line
\* 182: every member of the tuple is first required to be an exception
\* class, and a member that is not makes the match itself raise TypeError
\* ("catching classes that do not inherit from BaseException is not
\* allowed"), whatever was raised.
ExceptClause(exc) ==
    IF \E i \in 1..Len(ExceptTuple) : ~IsExceptionClass(ExceptTuple[i])
    THEN "TypeError"
    ELSE IF \E i \in 1..Len(ExceptTuple) : IsInstance(exc, ExceptTuple[i])
    THEN "caught"
    ELSE "propagate"

\* lines 187-191
ErrorClass(e) ==
    IF IsInstance(e, "ClientConnectionError") THEN "APIConnectionError"
    ELSE "APITimeoutError"

\* line 184
WaitTime(attempt) == 1 * (2 ^ attempt)

\* result.get('error', 'Unknown error')
ErrorMsg(body) == IF body.hasError THEN body.error ELSE "Unknown error"

Raise(c, exc, m, ctx) == [c EXCEPT !.raised = exc, !.msg = m, !.context = ctx]

\* lines 182-194: the handler body, run for a caught exception e
Handler(c, e) ==
    IF c.attempt < max_retries - 1
    THEN [pc   |-> "sleeping",
          call |-> [c EXCEPT !.sleeps = Append(@, WaitTime(c.attempt)),
                             !.attempt = @ + 1]]
    ELSE [pc   |-> "done",
          call |-> Raise(c, ErrorClass(e),
                         [text |-> "Request failed after n attempts.",
                          n |-> max_retries, error |-> ""], e)]

\* an exception exc with message m raised inside the try block (160-180)
Thrown(c, exc, m) ==
    LET how == ExceptClause(exc) IN
    IF how = "TypeError"
    THEN [pc   |-> "done",
          call |-> Raise(c, "TypeError",
                         [text |-> "catching classes that do not inherit from BaseException is not allowed",
                          n |-> 0, error |-> ""], exc)]
    ELSE IF how = "caught" THEN Handler(c, exc)
    ELSE [pc |-> "done", call |-> Raise(c, exc, m, "none")]

\* lines 167-180 without the `return result` of line 180: the loop goes on
CompletedNoReturn(c, o) ==
    IF o.status >= 400
    THEN IF 400 <= o.status /\ o.status < 500
         THEN Thrown(c, "APIClientError",
                     [text |-> "Client error:", n |-> o.status, error |-> ErrorMsg(o.body)])
         ELSE Thrown(c, "APIServerError",
                     [text |-> "Server error:", n |-> o.status, error |-> ErrorMsg(o.body)])
    ELSE [pc |-> "loop", call |-> [c EXCEPT !.attempt = @ + 1, !.body = o.body]]

\* lines 167-180: a completed response o
Completed(c, o) ==
    IF o.status >= 400
    THEN IF 400 <= o.status /\ o.status < 500
         THEN Thrown(c, "APIClientError",
                     [text |-> "Client error:", n |-> o.status, error |-> ErrorMsg(o.body)])
         ELSE Thrown(c, "APIServerError",
                     [text |-> "Server error:", n |-> o.status, error |-> ErrorMsg(o.body)])
    ELSE [pc |-> "done", call |-> [c EXCEPT !.ret = "json", !.body = o.body]]

(* ------------------------------ actions ------------------------------- *)

\* A coroutine that has not reached an await keeps the event loop: while one
\* stands between _ensure_session's return and the loop's first statement
\* (pc = "loop"), no other coroutine runs.
Scheduled(p) == \A q \in Callers \ {p} : pc[q] # "loop"

\* a caller may start an operation when it is in none
CanCall(p) == pc[p] = "idle" /\ Scheduled(p) /\ calls < MaxCalls

\* caller p goes on at r.pc with the locals r.call; a call that ends (by a
\* return or by a raise) is handed to `done` and its caller is idle again
Goto(p, r) ==
    IF r.pc = "done"
    THEN /\ pc' = [pc EXCEPT ![p] = "idle"]
         /\ call' = [call EXCEPT ![p] = NewCall("none")]
         /\ done' = r.call
         /\ scope' = IF r.call.op = "__aenter__" THEN "entered"
                     ELSE IF r.call.op = "__aexit__" THEN "exited"
                     ELSE scope
    ELSE /\ pc' = [pc EXCEPT ![p] = r.pc]
         /\ call' = [call EXCEPT ![p] = r.call]
         /\ done' = NewCall("none")
         /\ scope' = scope

\* _ensure_session up to its first await (line 117, then the lock of 118);
\* `then` is where the caller continues when a usable session is found
EnsureSessionFrom(c, then) ==
    IF SessionMissing
    THEN [pc |-> "acquire", call |-> [c EXCEPT !.raced = TRUE]]
    ELSE then

\* _make_request without the call of _ensure_session of line 157
EnterMakeRequestNoEnsure(c) == [pc |-> "loop", call |-> c]

\* _make_request, lines 156-157
EnterMakeRequest(c) == EnsureSessionFrom(c, [pc |-> "loop", call |-> c])

\* a direct _ensure_session()
EnsureSession(p) ==
    /\ CanCall(p)
    /\ calls' = calls + 1
    /\ LET c == NewCall("_ensure_session") IN
         Goto(p, EnsureSessionFrom(c, [pc |-> "done", call |-> [c EXCEPT !.ret = "ensured"]]))
    /\ UNCHANGED <<base_url, request_timeout, max_retries, api_key, session, sess, released, lock>>

\* SteamMethods.get_price
GetPrice(p) ==
    /\ CanCall(p)
    /\ calls' = calls + 1
    /\ Goto(p, EnterMakeRequest(NewCall("get_price")))
    /\ UNCHANGED <<base_url, request_timeout, max_retries, api_key, session, sess, released, lock>>

\* SteamMethods.buy
Buy(p, puan, steam_link) ==
    /\ CanCall(p)
    /\ calls' = calls + 1
    /\ LET c == [NewCall("buy") EXCEPT !.key = api_key]
           order == BuyOrder(api_key, puan, steam_link) IN
         IF KeyMissing(api_key)
         THEN Goto(p, [pc |-> "done",
                       call |-> Raise(c, "ValueError",
                                      [text |-> "API key is required for buy operations",
                                       n |-> 0, error |-> ""], "none")])
         ELSE IF order.invalid # {}
         THEN Goto(p, [pc |-> "done",
                       call |-> Raise([c EXCEPT !.puan = puan, !.invalid = order.invalid],
                                      "ValidationError", NoMsg, "none")])
         ELSE Goto(p, EnterMakeRequest(
                         [c EXCEPT !.puan = puan, !.payload = order.data]))
    /\ UNCHANGED <<base_url, request_timeout, max_retries, api_key, session, sess, released, lock>>

\* SteamMethods.get_balance
GetBalance(p) ==
    /\ CanCall(p)
    /\ calls' = calls + 1
    /\ LET c == [NewCall("get_balance") EXCEPT !.key = api_key] IN
         IF KeyMissing(api_key)
         THEN Goto(p, [pc |-> "done",
                       call |-> Raise(c, "ValueError",
                                      [text |-> "API key is required for balance operations",
                                       n |-> 0, error |-> ""], "none")])
         ELSE Goto(p, EnterMakeRequest(
                         [c EXCEPT !.payload = [api_key |-> api_key, puan |-> 0]]))
    /\ UNCHANGED <<base_url, request_timeout, max_retries, api_key, session, sess, released, lock>>

\* `async with self._session_lock`: the lock is taken when it is free
AcquireLock(p) ==
    /\ pc[p] = "acquire"
    /\ Scheduled(p)
    /\ lock = 0
    /\ lock' = p
    /\ pc' = [pc EXCEPT ![p] = "locked"]
    /\ done' = NewCall("none")
    /\ UNCHANGED <<base_url, request_timeout, max_retries, api_key, session, sess, released, calls, call, scope>>

\* lines 119-127 with the lock kept by the caller after _ensure_session
CreateUnderLockKeepsLock(p) ==
    /\ pc[p] = "locked"
    /\ Scheduled(p)
    /\ lock = p
    /\ lock' = p
    /\ LET make == SessionMissingUnderLock
           s    == IF make THEN NextSession ELSE session
           c    == [call[p] EXCEPT !.created = IF make THEN @ + 1 ELSE @]
       IN /\ session' = s
          /\ sess' = IF make THEN [sess EXCEPT ![s] = "open"] ELSE sess
          /\ IF c.op \in {"_ensure_session", "__aenter__"}
             THEN Goto(p, [pc |-> "done", call |-> [c EXCEPT !.ret = "ensured"]])
             ELSE Goto(p, [pc |-> "loop", call |-> c])
    /\ UNCHANGED <<base_url, request_timeout, max_retries, api_key, released, calls>>

\* lines 119-127 under the lock, the release of the lock, and the return to
\* the caller of _ensure_session: none of them awaits
CreateUnderLock(p) ==
    /\ pc[p] = "locked"
    /\ Scheduled(p)
    /\ lock = p
    /\ lock' = 0
    /\ LET make == SessionMissingUnderLock
           s    == IF make THEN NextSession ELSE session
           c    == [call[p] EXCEPT !.created = IF make THEN @ + 1 ELSE @]
       IN /\ session' = s
          /\ sess' = IF make THEN [sess EXCEPT ![s] = "open"] ELSE sess
          /\ IF c.op \in {"_ensure_session", "__aenter__"}
             THEN Goto(p, [pc |-> "done", call |-> [c EXCEPT !.ret = "ensured"]])
             ELSE Goto(p, [pc |-> "loop", call |-> c])
    /\ UNCHANGED <<base_url, request_timeout, max_retries, api_key, released, calls>>

\* The top of `for attempt in range(self._max_retries)`, reached from
\* _ensure_session (attempt 0) or from the end of a backoff sleep: the loop
\* ends (line 196), or self.session.request(...) is evaluated (line 161).
LoopTop(p) ==
    /\ pc[p] \in {"loop", "sleeping"}
    /\ LET c == call[p] IN
         IF c.attempt >= RangeLen(max_retries)
         THEN Goto(p, [pc |-> "done",
                       call |-> Raise(c, "APIError",
                                      [text |-> "Request failed after all retries.",
                                       n |-> 0, error |-> ""], "none")])
         ELSE IF session = NoSession
         THEN Goto(p, Thrown(c, "AttributeError", NoMsg))
         ELSE IF sess[session] # "open"
         THEN Goto(p, Thrown(c, "RuntimeError",
                             [text |-> "Session is closed", n |-> 0, error |-> ""]))
         ELSE Goto(p, [pc |-> "inflight", call |-> [c EXCEPT !.attempts = @ + 1]])
    /\ UNCHANGED <<base_url, request_timeout, max_retries, api_key, session, sess, released, lock, calls>>

\* a _make_request that drops the client's session when the transport fails
RespondDropsSession(p, o) ==
    /\ pc[p] = "inflight"
    /\ Scheduled(p)
    /\ LET c == [call[p] EXCEPT !.outcomes = Append(@, o)] IN
         IF o.kind \in TransportFaults
         THEN Goto(p, Thrown(c, o.kind, NoMsg))
         ELSE Goto(p, Completed(c, o))
    /\ session' = IF o.kind \in TransportFaults THEN NoSession ELSE session
    /\ UNCHANGED <<base_url, request_timeout, max_retries, api_key, sess, released, lock, calls>>

\* the transport answers the attempt in flight, or fails it (lines 161-194)
Respond(p, o) ==
    /\ pc[p] = "inflight"
    /\ Scheduled(p)
    /\ LET c == [call[p] EXCEPT !.outcomes = Append(@, o)] IN
         IF o.kind \in TransportFaults
         THEN Goto(p, Thrown(c, o.kind, NoMsg))
         ELSE Goto(p, Completed(c, o))
    /\ UNCHANGED <<base_url, request_timeout, max_retries, api_key, session, sess, released, lock, calls>>

\* close(), line 98 and the call of session.close() of line 99, which marks
\* the session closed before it awaits
CloseAs(p, c) ==
    /\ IF CloseGuard
       THEN /\ sess' = [sess EXCEPT ![session] = "closed"]
            /\ released' = [released EXCEPT ![session] = @ + 1]
            /\ Goto(p, [pc |-> "closing", call |-> c])
       ELSE /\ UNCHANGED <<sess, released>>
            /\ Goto(p, [pc |-> "done", call |-> [c EXCEPT !.ret = "noop"]])
    /\ UNCHANGED <<base_url, request_timeout, max_retries, api_key, session, lock>>

\* a direct close()
Close(p) ==
    /\ CanCall(p)
    /\ calls' = calls + 1
    /\ CloseAs(p, NewCall("close"))

\* close(), line 100, after the await of line 99
CloseFinish(p) ==
    /\ pc[p] = "closing"
    /\ Scheduled(p)
    /\ session' = NoSession
    /\ Goto(p, [pc |-> "done", call |-> [call[p] EXCEPT !.ret = "released"]])
    /\ UNCHANGED <<base_url, request_timeout, max_retries, api_key, sess, released, lock, calls>>

\* set_api_key that keeps the stored key when it is given an empty one
SetApiKeyNonEmpty(p, k) ==
    /\ CanCall(p)
    /\ calls' = calls + 1
    /\ api_key' = IF k = "" THEN api_key ELSE k
    /\ Goto(p, [pc |-> "done",
                call |-> [NewCall("set_api_key") EXCEPT !.ret = "set", !.key = k]])
    /\ UNCHANGED <<base_url, request_timeout, max_retries, session, sess, released, lock>>

\* set_api_key
SetApiKey(p, k) ==
    /\ CanCall(p)
    /\ calls' = calls + 1
    /\ api_key' = k
    /\ Goto(p, [pc |-> "done",
                call |-> [NewCall("set_api_key") EXCEPT !.ret = "set", !.key = k]])
    /\ UNCHANGED <<base_url, request_timeout, max_retries, session, sess, released, lock>>

Next ==
    \E p \in Callers :
        \/ EnsureSession(p)
        \/ GetPrice(p)
        \/ \E puan \in PuanValues, steam_link \in SteamLinks : Buy(p, puan, steam_link)
        \/ GetBalance(p)
        \/ AcquireLock(p)
        \/ CreateUnderLock(p)
        \/ LoopTop(p)
        \/ \E o \in Outcomes : Respond(p, o)
        \/ Close(p)
        \/ CloseFinish(p)
        \/ \E k \in KeyValues : SetApiKey(p, k)

Spec == Init /\ [][Next]_vars

(* ------------------- the client held in `async with` ------------------- *)

\* __aenter__: _ensure_session(), then the body of the `async with` runs
AEnter(p) ==
    /\ p = ScopeOwner
    /\ scope = "none"
    /\ CanCall(p)
    /\ calls' = calls + 1
    /\ LET c == NewCall("__aenter__") IN
         Goto(p, EnsureSessionFrom(c, [pc |-> "done", call |-> [c EXCEPT !.ret = "ensured"]]))
    /\ UNCHANGED <<base_url, request_timeout, max_retries, api_key, session, sess, released, lock>>

\* __aexit__ that releases the session on a normal exit alone
AExitOnSuccess(p, body_raised) ==
    /\ p = ScopeOwner
    /\ scope = "entered"
    /\ pc[p] = "idle"
    /\ Scheduled(p)
    /\ LET c == [NewCall("__aexit__") EXCEPT
                    !.context = IF body_raised THEN "BodyError" ELSE "none"]
       IN IF body_raised
          THEN /\ Goto(p, [pc |-> "done", call |-> [c EXCEPT !.ret = "skipped"]])
               /\ UNCHANGED <<base_url, request_timeout, max_retries, api_key, session, lock, sess, released>>
          ELSE CloseAs(p, c)
    /\ UNCHANGED calls

\* __aexit__(exc_type, exc_val, exc_tb): the body has ended, by running to
\* its end or by an exception (body_raised, kept as the context of the
\* call); the arguments are not looked at and close() is called
AExit(p, body_raised) ==
    /\ p = ScopeOwner
    /\ scope = "entered"
    /\ pc[p] = "idle"
    /\ Scheduled(p)
    /\ CloseAs(p, [NewCall("__aexit__") EXCEPT
                      !.context = IF body_raised THEN "BodyError" ELSE "none"])
    /\ UNCHANGED calls

\* the body of the `async with` is running: the scope is entered and its
\* owner has not reached __aexit__
InBody == scope = "entered" /\ pc[ScopeOwner] # "closing"

\* The client is used through the scope alone: the owner and the
\* coroutines it started begin their operations in the body; what they
\* began goes on while the scope is left.
ScopedNext ==
    \E p \in Callers :
        \/ AEnter(p)
        \/ InBody /\ GetPrice(p)
        \/ InBody /\
              \E puan \in PuanValues, steam_link \in SteamLinks : Buy(p, puan, steam_link)
        \/ InBody /\ GetBalance(p)
        \/ InBody /\ \E k \in KeyValues : SetApiKey(p, k)
        \/ AcquireLock(p)
        \/ CreateUnderLock(p)
        \/ LoopTop(p)
        \/ \E o \in Outcomes : Respond(p, o)
        \/ \E body_raised \in BOOLEAN : AExit(p, body_raised)
        \/ CloseFinish(p)

ScopeSpec == Init /\ [][ScopedNext]_vars

(* ------------------- a client constructed without key ------------------ *)

KeyInit == Init /\ api_key = NoKey

KeySpec == KeyInit /\ [][Next]_vars

(* ----------------------- BuyOrder on its own --------------------------- *)

\* a caller is about to construct BuyOrder(api_key=k, puan=v, ...)
OrderInit ==
    /\ base_url = "https://api.buysteampoints.com"
    /\ request_timeout = 1800
    /\ max_retries = 1
    /\ api_key = "key-A"
    /\ session = NoSession
    /\ sess = [s \in SessionIds |-> "absent"]
    /\ released = [s \in SessionIds |-> 0]
    /\ lock = 0
    /\ calls = 0
    /\ \E k \in KeyValues \ {NoKey}, v \in PuanRange :
           call = [p \in Callers |->
                     [NewCall("BuyOrder") EXCEPT !.key = k, !.puan = v]]
    /\ pc = [p \in Callers |-> "construct"]
    /\ done = NewCall("none")
    /\ scope = "none"

\* BuyOrder(api_key=k, puan=v, steam_link=steam_link) is constructed
ConstructBuyOrder(p, steam_link) ==
    /\ pc[p] = "construct"
    /\ LET c == call[p]
           order == BuyOrder(c.key, c.puan, steam_link)
       IN Goto(p, [pc |-> "done",
                   call |-> IF order.invalid # {}
                            THEN Raise([c EXCEPT !.invalid = order.invalid],
                                       "ValidationError", NoMsg, "none")
                            ELSE [c EXCEPT !.payload = order.data, !.ret = "order"]])
    /\ UNCHANGED <<base_url, request_timeout, max_retries, api_key, session, sess, released, lock, calls>>

OrderNext ==
    \E p \in Callers, steam_link \in SteamLinks : ConstructBuyOrder(p, steam_link)

OrderSpec == OrderInit /\ [][OrderNext]_vars

(* --------------------- the event loop makes progress ------------------- *)

\* the step of caller p from where it is suspended; where p stands decides
\* which one it is
Resume(p) ==
    \/ AcquireLock(p)
    \/ CreateUnderLock(p)
    \/ LoopTop(p)
    \/ \E o \in Outcomes : Respond(p, o)
    \/ CloseFinish(p)

\* A coroutine that can go on does go on: the event loop runs what can run,
\* the transport answers every attempt in flight and every sleep ends.
Fairness == \A p \in Callers : WF_vars(Resume(p))

FairSpec == Spec /\ Fairness

(* ---------------------------- properties ------------------------------ *)

RequestOps == {"get_price", "buy", "get_balance"}
AuthOps == {"buy", "get_balance"}

IsFault(o) == o.kind \in TransportFaults
IsHttpError(o) == o.kind = "response" /\ o.status >= 400
IsSuccess(o) == o.kind = "response" /\ o.status < 400

\* a call of _make_request that has ended (the caller got past the
\* precondition checks of the wrapper)
EndedRequest(c) == c.op \in RequestOps /\ c.raised \notin {"ValueError", "ValidationError"}

NumFaults(os) == Cardinality({i \in 1..Len(os) : IsFault(os[i])})

\* C1: a call of _make_request issues at most max_retries HTTP attempts, the
\* first attempt counting as one of them, whatever the transport does.
C1_AttemptsWithinBudget ==
    /\ \A p \in Callers : call[p].attempts <= max_retries
    /\ done.attempts <= max_retries

\* a request has ended having used its whole budget of attempts
C1_Witness ==
    /\ EndedRequest(done)
    /\ max_retries >= 1
    /\ done.attempts = max_retries
    /\ Len(done.outcomes) = max_retries

\* C2: when every attempt fails with a connection fault, the call makes
\* exactly max_retries attempts and then raises APIConnectionError, whose
\* message states that number; it raises nothing else and not earlier.
C2_ConnectionFaultsExhaustBudget ==
    ( /\ EndedRequest(done)
      /\ max_retries >= 1
      /\ done.outcomes # <<>>
      /\ \A i \in 1..Len(done.outcomes) : done.outcomes[i].kind = "ClientConnectionError" )
    => /\ done.attempts = max_retries
       /\ done.raised = "APIConnectionError"
       /\ done.msg = [text |-> "Request failed after n attempts.", n |-> max_retries, error |-> ""]

C4_SuccessAfterFaults ==
    EndedRequest(done) =>
        LET os == done.outcomes
            k  == NumFaults(os)
        IN /\ ~(os # <<>> /\ k = Len(os) /\ k < max_retries)
           /\ (os # <<>> /\ IsSuccess(os[Len(os)]) /\ k = Len(os) - 1 /\ k < max_retries) =>
                  /\ done.ret = "json"
                  /\ done.body = os[Len(os)].body
                  /\ done.raised = "none"
                  /\ done.attempts = k + 1

\* C5: a call of get_price, buy, get_balance or _make_request returns a JSON
\* mapping, or raises one error of the API taxonomy, or raises a
\* precondition/validation error before anything is sent; nothing else
\* escapes.
ApiErrors == {"APIError", "APIConnectionError", "APITimeoutError",
              "APIAuthenticationError", "APIServerError", "APIClientError"}

C5_TypedOutcomeOnly ==
    done.op \in RequestOps =>
        \/ done.raised = "none" /\ done.ret = "json"
        \/ done.raised \in ApiErrors /\ done.ret = "none"
        \/ done.raised \in {"ValueError", "ValidationError"} /\ done.attempts = 0

\* C6: callers that race through _ensure_session while no session exists
\* create one session between them, and each of them finds that session in
\* client.session when its _ensure_session returns (stated up to the first
\* close(), which is what ends a session).
C6_OneSessionCreated ==
    (\A s \in SessionIds : released[s] = 0) =>
        /\ Cardinality({s \in SessionIds : sess[s] # "absent"}) <= 1
        /\ done.ret = "ensured" => session = 1 /\ sess[1] = "open"
        /\ \A p \in Callers :
               pc[p] \in {"loop", "inflight"} => session = 1 /\ sess[1] = "open"

\* a caller that found no session at line 117 and waited for the lock has
\* returned with the session another caller created meanwhile
C6_Witness ==
    /\ \A s \in SessionIds : released[s] = 0
    /\ done.ret = "ensured"
    /\ done.raced
    /\ done.created = 0
    /\ session = 1
    /\ Cardinality({s \in SessionIds : sess[s] # "absent"}) = 1

\* C7: close() is idempotent: with no session, or with a session already
\* closed, it raises nothing, releases nothing and leaves the client as it
\* was; no session is released twice, whatever the order of the closes.
C7_CloseIdempotent ==
    /\ [](\A s \in SessionIds : released[s] <= 1)
    /\ [](done.op = "close" => done.raised = "none")
    /\ [][ \A p \in Callers :
             ( /\ pc[p] = "idle"
               /\ calls' = calls + 1
               /\ (done'.op = "close" \/ pc'[p] = "closing")
               /\ (session = NoSession \/ sess[session] # "open") )
             => /\ done'.op = "close"
                /\ done'.ret = "noop"
                /\ done'.raised = "none"
                /\ UNCHANGED <<session, sess, released, lock, api_key, max_retries>> ]_vars

\* a close() after the close() that released the session has ended as a no-op
C7_Witness ==
    /\ done.op = "close"
    /\ done.ret = "noop"
    /\ session = NoSession
    /\ \E s \in SessionIds : sess[s] = "closed" /\ released[s] = 1

\* C8: buy() and get_balance() with api_key None or empty raise ValueError
\* before any network activity: no attempt is issued and no session is
\* created by the call.
C8_MissingKeyPrecondition ==
    /\ \A p \in Callers :
           call[p].op \in AuthOps => call[p].key # NoKey /\ call[p].key # ""
    /\ (done.op \in AuthOps /\ (done.key = NoKey \/ done.key = "")) =>
           /\ done.raised = "ValueError"
           /\ done.attempts = 0
           /\ done.created = 0
           /\ done.outcomes = <<>>

\* a buy() or get_balance() made with an empty key has been refused
C8_Witness ==
    /\ done.op \in AuthOps
    /\ done.key = ""
    /\ done.raised = "ValueError"
    /\ done.attempts = 0

\* C9: after a transport fault on attempt i that is not the last allowed
\* attempt the call sleeps 2^i seconds and goes on to attempt i+1; it does
\* not sleep after the last allowed attempt, a success or an HTTP error.  So
\* a call that ends on a fault ends on attempt max_retries, and the sleeps of
\* an ended call are 1, 2, 4, ...: one per fault, less the last allowed one.
C9_BackoffSchedule ==
    (EndedRequest(done) /\ max_retries >= 1 /\ done.outcomes # <<>>) =>
        LET os == done.outcomes
            lastFault == IsFault(os[Len(os)])
            m  == IF lastFault THEN NumFaults(os) - 1 ELSE NumFaults(os)
        IN /\ lastFault => Len(os) = max_retries
           /\ done.sleeps = [i \in 1..m |-> 2 ^ (i - 1)]

\* C10: a response with status s >= 400 makes the caller receive
\* APIClientError for 400..499 and APIServerError from 500 on, with a
\* message holding s and the body's `error` value, or "Unknown error".
C10_HttpErrorClassified ==
    (EndedRequest(done) /\ done.outcomes # <<>> /\ IsHttpError(done.outcomes[Len(done.outcomes)])) =>
        LET o == done.outcomes[Len(done.outcomes)] IN
        /\ done.raised = IF o.status <= 499 THEN "APIClientError" ELSE "APIServerError"
        /\ done.msg.n = o.status
        /\ done.msg.error = IF o.body.hasError THEN o.body.error ELSE "Unknown error"

\* C11: when the last allowed attempt ends in a transport fault, the error
\* raised follows the kind of that fault: APITimeoutError for a timeout,
\* APIConnectionError for a connection fault, whatever came before; a
\* transport that times out on every attempt gives APITimeoutError after
\* max_retries attempts.
C11_LastFaultDecidesErrorKind ==
    (EndedRequest(done) /\ max_retries >= 1 /\ done.outcomes # <<>>) =>
        LET os == done.outcomes
            o  == os[Len(os)]
        IN /\ (IsFault(o) /\ Len(os) = max_retries) =>
                  done.raised = IF o.kind = "TimeoutError" THEN "APITimeoutError"
                                ELSE "APIConnectionError"
           /\ (\A i \in 1..Len(os) : os[i].kind = "TimeoutError") =>
                  /\ done.attempts = max_retries
                  /\ done.raised = "APITimeoutError"

\* C13: max_retries >= 1 in every reachable state: no client is constructed
\* with max_retries 0 or negative, and no operation lowers it below 1.
C13_MaxRetriesPositive == max_retries >= 1

C17_NoOpenSessionLost ==
    \A s \in SessionIds : sess[s] = "open" => session = s

\* C18: retries and backoff are local to a call: a request suspended in its
\* retry loop (in flight or asleep) holds no lock, a step of one caller
\* changes no other caller's call, and a request's attempts and sleeps
\* follow from its own transport outcomes alone.
OwnSchedule(c) ==
    /\ c.attempts \in {Len(c.outcomes), Len(c.outcomes) + 1}
    /\ Len(c.sleeps) <= NumFaults(c.outcomes)
    /\ \A i \in 1..Len(c.sleeps) : c.sleeps[i] = 2 ^ (i - 1) /\ IsFault(c.outcomes[i])

C14_SetApiKeyFrame ==
    /\ [][ done'.op = "set_api_key" =>
             /\ api_key' = done'.key
             /\ done'.raised = "none"
             /\ done'.attempts = 0
             /\ UNCHANGED <<base_url, request_timeout, max_retries, session, sess, released, lock, pc, call>> ]_vars
    /\ [][ api_key' # api_key => done'.op = "set_api_key" ]_vars
    /\ [][ \A p \in Callers :
             (pc[p] = "idle" /\ pc'[p] # "idle" /\ call'[p].op \in AuthOps) =>
                 /\ call'[p].key = api_key
                 /\ call'[p].payload.api_key = api_key ]_vars
    /\ [][ \A p \in Callers :
             (call[p].op \in AuthOps /\ call'[p].attempts = call[p].attempts + 1) =>
                 /\ call'[p].payload = call[p].payload
                 /\ call'[p].payload.api_key = call[p].key
                 /\ call[p].key \notin {NoKey, ""} ]_vars
    /\ [][ \A p \in Callers :
             (call[p].op \in AuthOps /\ pc'[p] = "idle") =>
                 done'.payload = call[p].payload ]_vars

\* on a client constructed without a key, a buy() or get_balance() has an
\* attempt in flight that carries the key set_api_key stored
C14_Witness ==
    \E p \in Callers :
        /\ pc[p] = "inflight"
        /\ call[p].op \in AuthOps
        /\ call[p].attempts = 1
        /\ api_key = "key-A"
        /\ call[p].payload.api_key = "key-A"

C19_RequestTerminates ==
    /\ \A p \in Callers :
           (pc[p] # "idle" /\ call[p].op \in RequestOps) ~> (pc[p] = "idle")
    /\ [](\A p \in Callers :
             /\ call[p].attempts <= max_retries
             /\ Len(call[p].sleeps) <= IF max_retries >= 1 THEN max_retries - 1 ELSE 0)
    /\ [](/\ done.attempts <= max_retries
          /\ Len(done.sleeps) <= IF max_retries >= 1 THEN max_retries - 1 ELSE 0)

\* a request that had to make the session has ended with all of its
\* attempts used
C19_Witness ==
    /\ done.op \in RequestOps
    /\ done.created = 1
    /\ max_retries >= 1
    /\ done.attempts = max_retries
    /\ done.sleeps = <<>>

\* C21: a step of _ensure_session or _make_request changes api_key,
\* base_url, max_retries and request_timeout on no outcome, closes no
\* session, and changes client.session only by creating one when the
\* client holds no open session: a session that is open stays in place,
\* and a call begun on an open session creates none.
SessionOps == RequestOps \cup {"_ensure_session", "__aenter__"}

C21_OpenSessionLeftInPlace ==
    /\ [][ (\/ done'.op \in SessionOps
            \/ \E p \in Callers : call'[p] # call[p] /\ call'[p].op \in SessionOps)
           =>
           /\ UNCHANGED <<api_key, base_url, max_retries, request_timeout, released>>
           /\ \A s \in SessionIds : sess[s] # "absent" => sess'[s] = sess[s]
           /\ (session # NoSession /\ sess[session] = "open") =>
                  /\ session' = session
                  /\ sess' = sess
           /\ session' # session =>
                  /\ session' # NoSession
                  /\ sess[session'] = "absent"
                  /\ sess'[session'] = "open" ]_vars
    /\ [][ \A p \in Callers :
             (/\ pc[p] = "idle"
              /\ pc'[p] # "idle"
              /\ call'[p].op \in SessionOps
              /\ session # NoSession
              /\ sess[session] = "open")
             => (pc'[p] = "loop" /\ call'[p].created = 0) ]_vars
    /\ [](\A p \in Callers :
             /\ call[p].created <= 1
             /\ ~call[p].raced => call[p].created = 0)
    /\ [](done.op \in SessionOps /\ ~done.raced => done.created = 0)

\* a request made on an open session has ended in an error after one
\* attempt, and the client still holds that session, open
C21_Witness ==
    /\ done.op \in RequestOps
    /\ ~done.raced
    /\ done.created = 0
    /\ done.attempts = 1
    /\ done.raised # "none"
    /\ session # NoSession
    /\ sess[session] = "open"
    /\ released[session] = 0

=============================================================================
